---- MODULE Spec2Model ----
(***************************************************************************)
(* Model of the chat relay of src/main.py: the ConnectionManager registry  *)
(* (active_connections), its connect / disconnect / broadcast methods and  *)
(* the websocket_endpoint handler that drives them.                        *)
(*                                                                         *)
(* The handlers are asyncio coroutines: code between two awaits runs       *)
(* atomically, so there is one action per await-to-await stretch of the    *)
(* handler.  The peer closing its end of a transport is an action of the   *)
(* environment.                                                            *)
(***************************************************************************)
EXTENDS Integers, Sequences, FiniteSets, TLC

(* ------------------------------ bounds -------------------------------- *)

NumSessions == 3
NumRooms == 2
\* messages committed per room
MaxMessages == 1

Sessions == 1 .. NumSessions
Rooms == 1 .. NumRooms
\* stand-ins for 'no session' and 'no room', outside Sessions and Rooms
NoSession == NumSessions + 1
NoRoom == NumRooms + 1

\* texts a client can send in one frame; the empty frame is a legal one
Contents == {"", "hi"}
Users == {"alice"}

(* ------------------------- program constants -------------------------- *)

\* .limit(20) of the history query
HistoryLimit == 20

\* frames a transport takes from a caller that drives the manager directly
MaxFrames == 2

(* ------------------------------ tokens -------------------------------- *)

\* Python's None, where a dict is expected and where a string is expected.
None == [none |-> "None"]
NoneStr == "None"

\* A token is the claims it carries and whether jwt.decode accepts it
\* (signature, expiry).
Tokens ==
  {[valid |-> FALSE, claims |-> [role |-> "user"]]}
    \cup {[valid |-> TRUE, claims |-> [role |-> "user"]]}
    \cup {[valid |-> TRUE, claims |-> [sub |-> u, role |-> "user"]] : u \in Users}

NoToken == [valid |-> FALSE, claims |-> None]

\* auth.decode_access_token: the payload, or None on JWTError
decode_access_token(token) ==
  IF token.valid THEN token.claims ELSE None

\* dict.get(key): None when the key is absent
Get(payload, key) ==
  IF key \in DOMAIN payload THEN payload[key] ELSE NoneStr

\* websocket_endpoint's two checks before manager.connect: the connection
\* is closed with 1008 unless the token decodes and carries a subject.
AuthenticatedNoSubjectCheck(token) ==
  decode_access_token(token) # None

Authenticated(token) ==
  /\ decode_access_token(token) # None
  /\ Get(decode_access_token(token), "sub") # NoneStr

(* ------------------------------ state --------------------------------- *)

VARIABLES
  active_connections,  \* ConnectionManager.active_connections: room -> list
  pc,                  \* position of each connection's handler
  room_id,             \* path parameter of each connection
  token,               \* query parameter of each connection
  transport,           \* "open", or "closed" once the peer or server closed it
  db,                  \* the messages table, in commit order
  history,             \* the handler's local 'history'
  iter,                \* the list iterator of the handler's broadcast call
  inbox,               \* frames written successfully to each transport
  exc,                 \* exception that left the handler uncaught, if any
  joined,              \* manager.connect has registered the session
  leaves,              \* number of manager.disconnect calls for the session
  call,                \* the handler's latest broadcast call, as observed
  persistFailed,       \* a commit of this handler has failed
  mgr                  \* outcome of the latest direct ConnectionManager call

vars == <<active_connections, pc, room_id, token, transport, db, history,
          iter, inbox, exc, joined, leaves, call, persistFailed, mgr>>

\* handler positions
Connecting == {"init", "accepting"}
Active == {"history", "receive", "broadcast"}
Terminated == {"closed", "crashed"}

NoIter == [idx |-> 0, conn |-> NoSession, detached |-> FALSE, message |-> None]
NoCall == [members |-> <<>>, attempts |-> <<>>, failed |-> NoSession,
           ended |-> TRUE, message |-> None]
NoMgr == [op |-> "none", room |-> NoRoom, ws |-> NoSession, raised |-> "none",
          member |-> FALSE, before |-> <<>>]

Init ==
  /\ active_connections = <<>>
  /\ pc = [s \in Sessions |-> "init"]
  /\ room_id = [s \in Sessions |-> NoRoom]
  /\ token = [s \in Sessions |-> NoToken]
  /\ transport = [s \in Sessions |-> "open"]
  /\ db = <<>>
  /\ history = [s \in Sessions |-> <<>>]
  /\ iter = [s \in Sessions |-> NoIter]
  /\ inbox = [s \in Sessions |-> <<>>]
  /\ exc = [s \in Sessions |-> "none"]
  /\ joined = [s \in Sessions |-> FALSE]
  /\ leaves = [s \in Sessions |-> 0]
  /\ call = [s \in Sessions |-> NoCall]
  /\ persistFailed = [s \in Sessions |-> FALSE]
  /\ mgr = NoMgr

(* ------------------------ ConnectionManager --------------------------- *)

\* active_connections.get(room, [])
Members(ac, room) ==
  IF room \in DOMAIN ac THEN ac[room] ELSE <<>>

\* a dict with one key set / one key deleted
DictSet(ac, room, list) ==
  [r \in DOMAIN ac \cup {room} |-> IF r = room THEN list ELSE ac[r]]

DictDel(ac, room) ==
  [r \in DOMAIN ac \ {room} |-> ac[r]]

InList(list, ws) ==
  \E i \in 1 .. Len(list) : list[i] = ws

\* index of the first occurrence of ws in list (list.remove removes that one)
FirstIndex(list, ws) ==
  CHOOSE i \in 1 .. Len(list) :
    list[i] = ws /\ \A j \in 1 .. (i - 1) : list[j] # ws

ListRemove(list, ws) ==
  LET k == FirstIndex(list, ws)
  IN [i \in 1 .. (Len(list) - 1) |-> IF i < k THEN list[i] ELSE list[i + 1]]

\* a connect that appends ws to the list of every room that has an entry
connectEveryRoom(ac, room, ws) ==
  [r \in DOMAIN ac \cup {room} |-> Append(Members(ac, r), ws)]

\* a connect that appends ws both before and after the accept
connectAppendsTwice(ac, room, ws) ==
  DictSet(ac, room, Append(Append(Members(ac, room), ws), ws))

\* ConnectionManager.connect after the accept: the registry with ws appended
\* to its room's list, the list created when the room has no entry.
connect(ac, room, ws) ==
  DictSet(ac, room, Append(Members(ac, room), ws))

\* What ConnectionManager.disconnect raises: KeyError when the room has no
\* entry, ValueError when list.remove does not find ws, else nothing.
disconnectRaises(ac, room, ws) ==
  IF room \notin DOMAIN ac THEN "KeyError"
  ELSE IF ~InList(ac[room], ws) THEN "ValueError"
  ELSE "none"

\* ConnectionManager.disconnect when it does not raise: ws removed, and the
\* room's entry deleted when its list is left empty.
disconnectKeepsEmptyRoom(ac, room, ws) ==
  DictSet(ac, room, ListRemove(ac[room], ws))

disconnect(ac, room, ws) ==
  IF ListRemove(ac[room], ws) = <<>>
  THEN DictDel(ac, room)
  ELSE DictSet(ac, room, ListRemove(ac[room], ws))

(* ----------------------------- frames ---------------------------------- *)

\* json.dumps({"type": "history", "messages": history})
HistoryFrame(messages) ==
  [type |-> "history", messages |-> messages]

\* the message frame stamped with a clock read after the commit instead of
\* new_msg.timestamp
MessageFrameOwnClock(user, content, timestamp) ==
  [type |-> "message", user |-> user, content |-> content,
   timestamp |-> timestamp + 1]

\* json.dumps({"type": "message", "user": ..., "content": ..., "timestamp": ...})
MessageFrame(user, content, timestamp) ==
  [type |-> "message", user |-> user, content |-> content,
   timestamp |-> timestamp]

(* --------------------------- persistence ------------------------------ *)

\* models.Message(room_id, user_id, content) after commit and refresh: the
\* store assigns the id and the timestamp (server_default=func.now()).
NewMessage(rows, room, user, content) ==
  [id |-> Len(rows) + 1, room_id |-> room, user |-> user, content |-> content,
   timestamp |-> Len(rows) + 1]

Reversed(seq) ==
  [i \in 1 .. Len(seq) |-> seq[Len(seq) + 1 - i]]

Limit(seq, n) ==
  SubSeq(seq, 1, IF Len(seq) < n THEN Len(seq) ELSE n)

RoomIs(room, m) ==
  m.room_id = room

\* .filter(room_id == room).order_by(timestamp.desc()).limit(20).all()
RecentMessages(rows, room) ==
  Limit(Reversed(SelectSeq(rows, LAMBDA m : RoomIs(room, m))), HistoryLimit)

\* the list comprehension over messages as queried, newest first
HistoryNewestFirst(rows, room) ==
  LET messages == RecentMessages(rows, room)
  IN [i \in 1 .. Len(messages) |->
        [user |-> messages[i].user, content |-> messages[i].content,
         timestamp |-> messages[i].timestamp]]

\* the 'history' list comprehension over reversed(messages)
History(rows, room) ==
  LET messages == Reversed(RecentMessages(rows, room))
  IN [i \in 1 .. Len(messages) |->
        [user |-> messages[i].user, content |-> messages[i].content,
         timestamp |-> messages[i].timestamp]]

(* ----------------------------- transport ------------------------------ *)

\* What a send_text on ws's transport can do.  On an open transport it
\* writes the frame.  On a closed one the outcome depends on the ASGI server
\* and the Starlette version: the frame is dropped silently, or the call
\* raises WebSocketDisconnect, or it raises another exception.
SendOutcomes(ws) ==
  IF transport[ws] = "open"
  THEN {"ok"}
  ELSE {"dropped", "WebSocketDisconnect", "RuntimeError"}

Raises(outcome) ==
  outcome \in {"WebSocketDisconnect", "RuntimeError"}

Written(box, ws, outcome, frame) ==
  IF outcome = "ok" THEN [box EXCEPT ![ws] = Append(@, frame)] ELSE box

(* --------------------------- the handler ------------------------------ *)

username(s) ==
  Get(decode_access_token(token[s]), "sub")

\* an iterator over a copy of the room's list taken when the call begins
IterListCopy(ac, s, it) ==
  IF it.idx = 0 THEN Members(ac, room_id[s]) ELSE call[s].members

\* The list object a broadcast iterator walks: the room's live list, or the
\* emptied list object it still holds after the room's entry was deleted.
IterList(ac, s, it) ==
  IF it.detached THEN <<>> ELSE Members(ac, room_id[s])

\* An uncaught exception leaves websocket_endpoint: the handler is over, the
\* server closes the transport, and nothing deregisters the session.
Crash(s, exception) ==
  /\ pc' = [pc EXCEPT ![s] = "crashed"]
  /\ exc' = [exc EXCEPT ![s] = exception]
  /\ transport' = [transport EXCEPT ![s] = "closed"]

\* except WebSocketDisconnect: manager.disconnect(room_id, websocket); db.close()
\* A deleted room entry leaves the iterators that still walk its list with
\* the emptied list object.
ExceptDisconnect(s, it) ==
  LET room == room_id[s]
      raised == disconnectRaises(active_connections, room, s)
  IN /\ leaves' = [leaves EXCEPT ![s] = @ + 1]
     /\ IF raised # "none"
        THEN /\ Crash(s, raised)
             /\ iter' = it
             /\ UNCHANGED active_connections
        ELSE /\ active_connections' = disconnect(active_connections, room, s)
             /\ pc' = [pc EXCEPT ![s] = "closed"]
             /\ transport' = [transport EXCEPT ![s] = "closed"]
             /\ iter' =
                  [t \in Sessions |->
                     IF /\ t # s
                        /\ room_id[t] = room
                        /\ pc[t] = "broadcast"
                        /\ room \notin DOMAIN disconnect(active_connections, room, s)
                     THEN [it[t] EXCEPT !.detached = TRUE]
                     ELSE it[t]]
             /\ UNCHANGED exc

\* One turn of 'for connection in ...: await connection.send_text(message)':
\* the iterator yields the element at its index of the list as it is now and
\* the send to it is started, or the list is exhausted and broadcast returns
\* to the receive loop.
ForNext(s, it, cl) ==
  LET list == IterList(active_connections, s, it)
  IN IF it.idx < Len(list)
     THEN /\ iter' = [iter EXCEPT ![s] =
                        [it EXCEPT !.idx = @ + 1, !.conn = list[it.idx + 1]]]
          /\ call' = [call EXCEPT ![s] =
                        [cl EXCEPT !.attempts = Append(@, list[it.idx + 1])]]
          /\ pc' = [pc EXCEPT ![s] = "broadcast"]
     ELSE /\ iter' = [iter EXCEPT ![s] = NoIter]
          /\ call' = [call EXCEPT ![s] = [cl EXCEPT !.ended = TRUE]]
          /\ pc' = [pc EXCEPT ![s] = "receive"]

\* websocket_endpoint up to manager.connect: the token checks.  Connections
\* are numbered in the order in which their requests arrive.
Handshake(s, room, tok) ==
  /\ pc[s] = "init"
  /\ \A t \in Sessions : t < s => pc[t] # "init"
  /\ room_id' = [room_id EXCEPT ![s] = room]
  /\ token' = [token EXCEPT ![s] = tok]
  /\ IF Authenticated(tok)
     THEN /\ pc' = [pc EXCEPT ![s] = "accepting"]
          /\ UNCHANGED transport
     ELSE /\ pc' = [pc EXCEPT ![s] = "closed"]
          /\ transport' = [transport EXCEPT ![s] = "closed"]
  /\ UNCHANGED <<active_connections, db, history, iter, inbox, exc, joined,
                 leaves, call, persistFailed, mgr>>

\* manager.connect once the accept is through, then db = SessionLocal() and
\* the history query: no await separates the registration from the query.
Connect(s, accepted, dbOK) ==
  /\ pc[s] = "accepting"
  /\ accepted \/ transport[s] = "closed"
  /\ IF ~accepted
     THEN /\ Crash(s, "RuntimeError")
          /\ UNCHANGED <<active_connections, joined, history>>
     ELSE /\ active_connections' = connect(active_connections, room_id[s], s)
          /\ joined' = [joined EXCEPT ![s] = TRUE]
          /\ IF dbOK
             THEN /\ history' = [history EXCEPT ![s] = History(db, room_id[s])]
                  /\ pc' = [pc EXCEPT ![s] = "history"]
                  /\ UNCHANGED <<exc, transport>>
             ELSE /\ Crash(s, "SQLAlchemyError")
                  /\ UNCHANGED history
  /\ UNCHANGED <<room_id, token, db, iter, inbox, leaves, call, persistFailed,
                 mgr>>

\* await websocket.send_text(history frame), outside the try block
SendHistory(s, outcome) ==
  /\ pc[s] = "history"
  /\ outcome \in SendOutcomes(s)
  /\ inbox' = Written(inbox, s, outcome, HistoryFrame(history[s]))
  /\ IF Raises(outcome)
     THEN Crash(s, outcome)
     ELSE /\ pc' = [pc EXCEPT ![s] = "receive"]
          /\ UNCHANGED <<exc, transport>>
  /\ UNCHANGED <<active_connections, room_id, token, db, history, iter, joined,
                 leaves, call, persistFailed, mgr>>

\* receive_text returns data; the message is committed, the frame built and
\* broadcast entered up to its first send.  A failed commit raises.
ReceiveText(s, data, dbOK) ==
  /\ pc[s] = "receive"
  /\ transport[s] = "open"
  /\ Len(SelectSeq(db, LAMBDA m : RoomIs(room_id[s], m))) < MaxMessages
  /\ IF ~dbOK
     THEN /\ Crash(s, "SQLAlchemyError")
          /\ persistFailed' = [persistFailed EXCEPT ![s] = TRUE]
          /\ UNCHANGED <<db, iter, call>>
     ELSE LET new_msg == NewMessage(db, room_id[s], username(s), data)
              frame == MessageFrame(username(s), data, new_msg.timestamp)
          IN /\ db' = Append(db, new_msg)
             /\ ForNext(s, [NoIter EXCEPT !.message = frame],
                        [members |-> Members(active_connections, room_id[s]),
                         attempts |-> <<>>, failed |-> NoSession,
                         ended |-> FALSE, message |-> frame])
             /\ UNCHANGED <<exc, transport, persistFailed>>
  /\ UNCHANGED <<active_connections, room_id, token, history, inbox, joined,
                 leaves, mgr>>

\* the same, were the registry guarded by one lock that a broadcast keeps
\* while a send is pending
ReceiveDisconnectUnderRegistryLock(s) ==
  /\ \A t \in Sessions : pc[t] # "broadcast"
  /\ pc[s] = "receive"
  /\ transport[s] = "closed"
  /\ ExceptDisconnect(s, iter)
  /\ UNCHANGED <<room_id, token, db, history, inbox, joined, call,
                 persistFailed, mgr>>

\* receive_text raises WebSocketDisconnect: the peer has closed
ReceiveDisconnect(s) ==
  /\ pc[s] = "receive"
  /\ transport[s] = "closed"
  /\ ExceptDisconnect(s, iter)
  /\ UNCHANGED <<room_id, token, db, history, inbox, joined, call,
                 persistFailed, mgr>>

\* The pending send_text of a broadcast completes.  An exception leaves
\* broadcast and reaches the sender's handler: WebSocketDisconnect is caught
\* by its except clause, any other exception is not caught.
Deliver(s, outcome) ==
  LET conn == iter[s].conn
      failed == [call[s] EXCEPT !.failed = conn, !.ended = TRUE]
  IN /\ pc[s] = "broadcast"
     /\ outcome \in SendOutcomes(conn)
     /\ inbox' = Written(inbox, conn, outcome, iter[s].message)
     /\ IF outcome = "WebSocketDisconnect"
        THEN /\ call' = [call EXCEPT ![s] = failed]
             /\ ExceptDisconnect(s, [iter EXCEPT ![s] = NoIter])
        ELSE IF outcome = "RuntimeError"
        THEN /\ call' = [call EXCEPT ![s] = failed]
             /\ iter' = [iter EXCEPT ![s] = NoIter]
             /\ Crash(s, outcome)
             /\ UNCHANGED <<active_connections, leaves>>
        ELSE /\ ForNext(s, iter[s], call[s])
             /\ UNCHANGED <<active_connections, leaves, exc, transport>>
     /\ UNCHANGED <<room_id, token, db, history, joined, persistFailed, mgr>>

\* the peer closes its end of the connection
PeerClose(s) ==
  /\ pc[s] \in {"accepting"} \cup Active
  /\ transport[s] = "open"
  /\ transport' = [transport EXCEPT ![s] = "closed"]
  /\ UNCHANGED <<active_connections, pc, room_id, token, db, history, iter,
                 inbox, exc, joined, leaves, call, persistFailed, mgr>>

Next ==
  \/ \E s \in Sessions, room \in Rooms, tok \in Tokens : Handshake(s, room, tok)
  \/ \E s \in Sessions, accepted \in BOOLEAN, dbOK \in BOOLEAN :
       Connect(s, accepted, dbOK)
  \/ \E s \in Sessions, outcome \in {"ok", "dropped", "WebSocketDisconnect",
                                    "RuntimeError"} : SendHistory(s, outcome)
  \/ \E s \in Sessions, data \in Contents, dbOK \in BOOLEAN :
       ReceiveText(s, data, dbOK)
  \/ \E s \in Sessions : ReceiveDisconnect(s)
  \/ \E s \in Sessions, outcome \in {"ok", "dropped", "WebSocketDisconnect",
                                    "RuntimeError"} : Deliver(s, outcome)
  \/ \E s \in Sessions : PeerClose(s)

Spec == Init /\ [][Next]_vars

(* ------------- ConnectionManager driven directly by a caller ---------- *)

\* manager.connect(room, ws) for a ws the room does not hold yet
ManagerConnect(room, ws) ==
  /\ ~InList(Members(active_connections, room), ws)
  /\ active_connections' = connect(active_connections, room, ws)
  /\ mgr' = [op |-> "connect", room |-> room, ws |-> ws, raised |-> "none",
             member |-> FALSE, before |-> active_connections]
  /\ UNCHANGED <<pc, room_id, token, transport, db, history, iter, inbox, exc,
                 joined, leaves, call, persistFailed>>

\* manager.disconnect(room, ws) for any room and any ws, member or not
ManagerDisconnect(room, ws) ==
  LET raised == disconnectRaises(active_connections, room, ws)
  IN /\ active_connections' =
          IF raised = "none"
          THEN disconnect(active_connections, room, ws)
          ELSE active_connections
     /\ mgr' = [op |-> "disconnect", room |-> room, ws |-> ws,
                raised |-> raised,
                member |-> InList(Members(active_connections, room), ws),
                before |-> active_connections]
     /\ UNCHANGED <<pc, room_id, token, transport, db, history, iter, inbox,
                    exc, joined, leaves, call, persistFailed>>

\* the payloads the caller broadcasts
Payloads == {MessageFrame(user, "hi", 1) : user \in Users}

\* manager.broadcast(message, room) awaited to its end by the caller, every
\* transport being open: send_text writes the frame to each connection of
\* active_connections.get(room, []) in turn.
ManagerBroadcast(room, message) ==
  LET list == Members(active_connections, room)
  IN /\ \A i \in 1 .. Len(list) : Len(inbox[list[i]]) < MaxFrames
     /\ inbox' = [ws \in Sessions |->
                    IF InList(list, ws)
                    THEN Written(inbox, ws, "ok", message)[ws]
                    ELSE inbox[ws]]
     /\ mgr' = [op |-> "broadcast", room |-> room, ws |-> NoSession,
                raised |-> "none", member |-> FALSE,
                before |-> active_connections, boxes |-> inbox]
     /\ UNCHANGED <<active_connections, pc, room_id, token, transport, db,
                    history, iter, exc, joined, leaves, call, persistFailed>>

NextManager ==
  \/ \E room \in Rooms, ws \in Sessions : ManagerConnect(room, ws)
  \/ \E room \in Rooms, ws \in Sessions : ManagerDisconnect(room, ws)
  \/ \E room \in Rooms, message \in Payloads : ManagerBroadcast(room, message)

SpecManager == Init /\ [][NextManager]_vars

(* ------------------------------ claims -------------------------------- *)

Registered(s) ==
  \E room \in DOMAIN active_connections : InList(active_connections[room], s)

RegisteredInOwnRoom(s) ==
  InList(Members(active_connections, room_id[s]), s)

Count(list, ws) ==
  Cardinality({i \in 1 .. Len(list) : list[i] = ws})

\* C1: in every reachable state the registry holds no room entry with an
\* empty member list, and every session that has completed connect and for
\* which disconnect has not been called is in its room's member list.
C1_RegistryInvariant ==
  /\ \A room \in DOMAIN active_connections : active_connections[room] # <<>>
  /\ \A s \in Sessions :
       (joined[s] /\ leaves[s] = 0) => RegisteredInOwnRoom(s)

\* C1 witness: two sessions joined the same room, one of them has left and
\* the other is now the room's only member.
C1_Witness ==
  \E s, t \in Sessions :
    /\ s # t
    /\ joined[s] /\ joined[t]
    /\ room_id[s] = room_id[t]
    /\ leaves[s] = 1 /\ leaves[t] = 0
    /\ Members(active_connections, room_id[t]) = <<t>>

\* C2 as claimed, for the members that stay: when a broadcast call in which
\* no send raised has ended, every session that was a member of the room when
\* the call began and for which disconnect has not been called has had
\* exactly one delivery attempt, whatever connects and disconnects of other
\* sessions interleaved with the deliveries.
C2_ExactlyOnceUnderInterleaving ==
  \A s \in Sessions :
    (call[s].ended /\ call[s].failed = NoSession) =>
      \A i \in 1 .. Len(call[s].members) :
        leaves[call[s].members[i]] = 0 =>
          Count(call[s].attempts, call[s].members[i]) = 1

\* C3 as claimed: when a delivery of a broadcast call has failed, delivery
\* has still been attempted to every other member the room had when the call
\* began, by the time the call has ended.
C3_FailureDoesNotAbort ==
  \A s \in Sessions :
    (call[s].ended /\ call[s].failed # NoSession) =>
      \A i \in 1 .. Len(call[s].members) :
        Count(call[s].attempts, call[s].members[i]) >= 1

\* C4 as claimed: a step in which a delivery to a recipient other than the
\* sender fails leaves the sender registered in its room, its handler still
\* in the receive loop, and no disconnect called for the sender.
C4_FailureNotPropagatedToSender ==
  [][\A s \in Sessions :
       (/\ pc[s] = "broadcast"
        /\ ~call[s].ended
        /\ call'[s].failed # NoSession
        /\ call'[s].failed # s)
       => (/\ pc'[s] \in Active
           /\ InList(Members(active_connections', room_id[s]), s)
           /\ leaves'[s] = leaves[s])]_vars

\* C5 as claimed: a session whose handler has terminated, for any reason,
\* is in no room's member list.
C5_NoOrphanedEntries ==
  \A s \in Sessions : pc[s] \in Terminated => ~Registered(s)

\* C6 as claimed: disconnect for a session that is not a member of the room
\* (the room having an entry or not) raises nothing and leaves the registry
\* as it was.
C6_LeaveOfNonMemberIsNoOp ==
  (mgr.op = "disconnect" /\ ~mgr.member) =>
    (mgr.raised = "none" /\ active_connections = mgr.before)

\* C7 as claimed: every registered session whose handler has terminated has
\* had disconnect called for it exactly once, and the cleanup raised nothing.
C7_LeaveExactlyOnce ==
  \A s \in Sessions :
    (joined[s] /\ pc[s] \in Terminated) =>
      (leaves[s] = 1 /\ exc[s] \notin {"KeyError", "ValueError"})

\* a token that fails to decode, or whose payload carries no subject
BadToken(tok) ==
  ~tok.valid \/ "sub" \notin DOMAIN tok.claims

\* C8: a connection whose token fails to decode or carries no subject is
\* never registered: it is in no room's member list and no connect has run
\* for it.
C8_RejectedNeverRegistered ==
  \A s \in Sessions :
    (pc[s] # "init" /\ BadToken(token[s])) => (~Registered(s) /\ ~joined[s])

\* C8 witness: a connection with an undecodable token and one with a token
\* without subject have both been closed while another session is registered.
C8_Witness ==
  \E s, t, u \in Sessions :
    /\ pc[s] = "closed" /\ ~token[s].valid
    /\ pc[t] = "closed" /\ token[t].valid /\ "sub" \notin DOMAIN token[t].claims
    /\ Registered(u)

\* C9 as claimed: no message with empty content is in the message log and
\* none is being broadcast.
C9_EmptyNeverPersistedOrBroadcast ==
  /\ \A i \in 1 .. Len(db) : db[i].content # ""
  /\ \A s \in Sessions : pc[s] = "broadcast" => iter[s].message.content # ""

\* C10 as claimed: a step in which the commit of a received message fails
\* broadcasts nothing and leaves the sender registered with its handler in the
\* receive loop.
C10_PersistFailureNotFatal ==
  [][\A s \in Sessions :
       (~persistFailed[s] /\ persistFailed'[s])
       => (/\ pc'[s] = "receive"
           /\ InList(Members(active_connections', room_id[s]), s)
           /\ inbox' = inbox)]_vars

IsHistoryFrame(frame) ==
  frame.type = "history"

IsMessageFrame(frame) ==
  frame.type = "message"

\* the message frames among the frames written to s
LiveFrames(s) ==
  SelectSeq(inbox[s], IsMessageFrame)

\* C11 as claimed: no message is seen twice by a joiner, that is both in its
\* history frame and as a live frame, and a message committed after the
\* joiner's history query, whose broadcast has ended without a send raising,
\* has reached the joiner as a live frame if the joiner is still connected.
C11_HistoryAndLiveStreamDisjointAndComplete ==
  /\ \A s \in Sessions :
       \A i, j \in 1 .. Len(inbox[s]) :
         (IsHistoryFrame(inbox[s][i]) /\ IsMessageFrame(inbox[s][j])) =>
           \A k \in 1 .. Len(inbox[s][i].messages) :
             inbox[s][i].messages[k].timestamp # inbox[s][j].timestamp
  /\ \A s \in Sessions :
       (call[s].ended /\ call[s].message # None /\ call[s].failed = NoSession) =>
         \A i \in 1 .. Len(call[s].members) :
           LET joiner == call[s].members[i]
           IN (leaves[joiner] = 0 /\ transport[joiner] = "open") =>
                Count(LiveFrames(joiner), call[s].message) = 1

(* ------------- joins on a message log that is already filled ---------- *)

\* rows already in the messages table when the first connection arrives
MaxStored == 28

\* A stored log of n rows in commit order, all of room 1 or every fourth row
\* of the last room.
StoredLog(n, mixed) ==
  [i \in 1 .. n |->
     [id |-> i,
      room_id |-> IF mixed /\ i % 4 = 0 THEN NumRooms ELSE 1,
      user |-> "alice", content |-> "hi", timestamp |-> i]]

\* the lengths of the stored logs tried: below, at and above the limit
StoredLengths ==
  {n \in 0 .. MaxStored : n % 4 = 0}

InitHistory ==
  /\ active_connections = <<>>
  /\ pc = [s \in Sessions |-> "init"]
  /\ room_id = [s \in Sessions |-> NoRoom]
  /\ token = [s \in Sessions |-> NoToken]
  /\ transport = [s \in Sessions |-> "open"]
  /\ \E n \in StoredLengths, mixed \in BOOLEAN : db = StoredLog(n, mixed)
  /\ history = [s \in Sessions |-> <<>>]
  /\ iter = [s \in Sessions |-> NoIter]
  /\ inbox = [s \in Sessions |-> <<>>]
  /\ exc = [s \in Sessions |-> "none"]
  /\ joined = [s \in Sessions |-> FALSE]
  /\ leaves = [s \in Sessions |-> 0]
  /\ call = [s \in Sessions |-> NoCall]
  /\ persistFailed = [s \in Sessions |-> FALSE]
  /\ mgr = NoMgr

\* the handler up to its receive loop, and connections going away
NextHistory ==
  \/ \E s \in Sessions, room \in Rooms, tok \in Tokens : Handshake(s, room, tok)
  \/ \E s \in Sessions, accepted \in BOOLEAN, dbOK \in BOOLEAN :
       Connect(s, accepted, dbOK)
  \/ \E s \in Sessions, outcome \in {"ok", "dropped", "WebSocketDisconnect",
                                    "RuntimeError"} : SendHistory(s, outcome)
  \/ \E s \in Sessions : ReceiveDisconnect(s)
  \/ \E s \in Sessions : PeerClose(s)

SpecHistory == InitHistory /\ [][NextHistory]_vars

RoomRows(rows, room) ==
  SelectSeq(rows, LAMBDA m : RoomIs(room, m))

HistoryFrames(s) ==
  SelectSeq(inbox[s], IsHistoryFrame)

\* C12: a history frame written to a session holds the min(20, k) most recent
\* of the k rows stored for the session's room, oldest first, and a session
\* is written at most one history frame, none before its own join.
C12_HistoryIsLastTwentyOldestFirst ==
  \A s \in Sessions :
    /\ Len(HistoryFrames(s)) <= 1
    /\ pc[s] \in {"init", "accepting", "history"} => inbox[s] = <<>>
    /\ \A f \in 1 .. Len(HistoryFrames(s)) :
         LET messages == HistoryFrames(s)[f].messages
             stored == RoomRows(db, room_id[s])
             k == Len(stored)
             n == IF k < HistoryLimit THEN k ELSE HistoryLimit
         IN /\ Len(messages) = n
            /\ \A j \in 1 .. n :
                 /\ messages[j].timestamp = stored[k - n + j].timestamp
                 /\ messages[j].content = stored[k - n + j].content
                 /\ messages[j].user = stored[k - n + j].user

\* C12 witness: a session has been written a history frame of 20 rows out of
\* more than 20 rows stored for its room, which has another member.
C12_Witness ==
  \E s, t \in Sessions :
    /\ s # t
    /\ room_id[s] = room_id[t]
    /\ RegisteredInOwnRoom(s) /\ RegisteredInOwnRoom(t)
    /\ Len(RoomRows(db, room_id[s])) > HistoryLimit
    /\ Len(HistoryFrames(s)) = 1
    /\ Len(HistoryFrames(s)[1].messages) = HistoryLimit
    /\ Len(HistoryFrames(t)) = 1

\* every send of s's latest broadcast call has written its frame
NoDeliveryFailed(s) ==
  /\ call[s].failed = NoSession
  /\ \A t \in Sessions :
       Count(LiveFrames(t), call[s].message) = Count(call[s].attempts, t)

\* C13 as claimed, for the members that stay: when the broadcast of a
\* non-empty message has ended and none of its deliveries failed, the sender
\* and every other session that was a member when the call began, for which
\* disconnect has not been called and whose transport is open, has been
\* written the message exactly once.
C13_SenderAndMembersReceiveOnce ==
  \A s \in Sessions :
    (/\ call[s].ended
     /\ call[s].message # None
     /\ call[s].message.content # ""
     /\ NoDeliveryFailed(s))
    => \A i \in 1 .. Len(call[s].members) :
         (/\ leaves[call[s].members[i]] = 0
          /\ transport[call[s].members[i]] = "open")
         => Count(LiveFrames(call[s].members[i]), call[s].message) = 1

\* C14: while a delivery of a broadcast on one room is pending, the handler
\* steps of the sessions of every other room are enabled: a connect, a
\* disconnect, the start of a broadcast and the completion of a pending
\* delivery do not wait for the pending write.
C14_OtherRoomsNotBlocked ==
  \A s, t \in Sessions :
    (pc[s] = "broadcast" /\ room_id[t] # room_id[s]) =>
      /\ pc[t] = "accepting" => ENABLED Connect(t, TRUE, TRUE)
      /\ (pc[t] = "receive" /\ transport[t] = "closed") =>
           ENABLED ReceiveDisconnect(t)
      /\ (/\ pc[t] = "receive"
          /\ transport[t] = "open"
          /\ Len(RoomRows(db, room_id[t])) < MaxMessages) =>
           ENABLED ReceiveText(t, "hi", TRUE)
      /\ pc[t] = "broadcast" =>
           \E outcome \in SendOutcomes(iter[t].conn) :
             ENABLED Deliver(t, outcome)

\* C14 witness: deliveries of two broadcasts on different rooms are pending
\* while a session of the second room waits at its receive with its peer
\* gone, its disconnect still to run.
C14_Witness ==
  \E s, t, u \in Sessions :
    /\ pc[s] = "broadcast" /\ pc[t] = "broadcast"
    /\ room_id[s] # room_id[t]
    /\ room_id[u] = room_id[t]
    /\ pc[u] = "receive" /\ transport[u] = "closed"

\* C15 as claimed: the recipients of a broadcast call are fixed when the call
\* begins: every delivery attempt of a call goes to a session that was a
\* member of the room when the call began.
C15_RecipientsFixedAtCallStart ==
  \A s \in Sessions :
    \A i \in 1 .. Len(call[s].attempts) :
      InList(call[s].members, call[s].attempts[i])

\* a committed row of the room that carries the frame's author, content and
\* timestamp
CommittedAs(frame, room) ==
  \E k \in 1 .. Len(db) :
    /\ db[k].room_id = room
    /\ db[k].user = frame.user
    /\ db[k].content = frame.content
    /\ db[k].timestamp = frame.timestamp

\* C16: every message frame written to a session, and every message frame
\* of a broadcast whose first delivery attempt has started, carries the
\* author, the content and the store's timestamp of a row already committed
\* for that room.
C16_PersistBeforeBroadcast ==
  \A s \in Sessions :
    /\ \A i \in 1 .. Len(LiveFrames(s)) :
         CommittedAs(LiveFrames(s)[i], room_id[s])
    /\ pc[s] = "broadcast" => CommittedAs(iter[s].message, room_id[s])
    /\ call[s].attempts # <<>> => CommittedAs(call[s].message, room_id[s])

\* C16 witness: a message frame has been written to two sessions and the
\* broadcast that carries it is still pending.
C16_Witness ==
  \E s, t, u \in Sessions :
    /\ s # t
    /\ pc[u] = "broadcast"
    /\ Count(LiveFrames(s), iter[u].message) = 1
    /\ Count(LiveFrames(t), iter[u].message) = 1

\* C17: in every reachable state each session occurs at most once in a
\* room's member list, and only in the list of the room of its own
\* connection.
C17_OneRoomOncePerSession ==
  \A s \in Sessions :
    \A room \in DOMAIN active_connections :
      /\ Count(active_connections[room], s) <= 1
      /\ InList(active_connections[room], s) => room = room_id[s]

\* C17 witness: two sessions are registered in one room and a third in
\* another room, after a broadcast has delivered a message in the first.
C17_Witness ==
  \E s, t, u \in Sessions :
    /\ s # t
    /\ room_id[s] = room_id[t]
    /\ room_id[u] # room_id[s]
    /\ RegisteredInOwnRoom(s) /\ RegisteredInOwnRoom(t) /\ RegisteredInOwnRoom(u)
    /\ LiveFrames(t) # <<>>

\* the rooms other than room have the entries and the member lists they had
OtherRoomsUnchanged(room) ==
  \A other \in Rooms \ {room} :
    /\ other \in DOMAIN active_connections <=> other \in DOMAIN mgr.before
    /\ Members(active_connections, other) = Members(mgr.before, other)

\* C18: a broadcast to room R writes only to sessions in R's member list and
\* leaves the registry as it was; a broadcast to a room with no entry writes
\* to no session and creates no entry; a connect or a disconnect on R leaves
\* the entry and the member list of every other room as they were.
C18_NoCrossRoomEffect ==
  /\ mgr.op = "broadcast" =>
       /\ \A ws \in Sessions :
            inbox[ws] # mgr.boxes[ws] =>
              InList(Members(mgr.before, mgr.room), ws)
       /\ active_connections = mgr.before
       /\ mgr.room \notin DOMAIN mgr.before =>
            (inbox = mgr.boxes /\ mgr.room \notin DOMAIN active_connections)
  /\ mgr.op \in {"connect", "disconnect"} => OtherRoomsUnchanged(mgr.room)

\* C18 witness: a broadcast to a room has written to its member while
\* another room holds a session that is not in the first, and that session
\* got nothing.
C18_Witness ==
  \E ws, other \in Sessions :
    /\ mgr.op = "broadcast"
    /\ InList(Members(mgr.before, mgr.room), ws)
    /\ inbox[ws] # mgr.boxes[ws]
    /\ ~InList(Members(mgr.before, mgr.room), other)
    /\ \E room \in Rooms \ {mgr.room} : InList(Members(mgr.before, room), other)
    /\ inbox[other] = mgr.boxes[other]

\* a step starts a delivery attempt of s's broadcast
StartsAttempt(s) ==
  /\ pc'[s] = "broadcast"
  /\ pc[s] # "broadcast" \/ iter'[s].idx # iter[s].idx

\* C19: no step starts a delivery attempt to a session for which disconnect
\* has been called: the target of every attempt that starts is, at that
\* moment, a member of the sender's room for which disconnect has not run.
C19_NoDeliveryAfterDeregistration ==
  [][\A s \in Sessions :
       StartsAttempt(s) =>
         /\ leaves'[iter'[s].conn] = 0
         /\ InList(Members(active_connections', room_id[s]), iter'[s].conn)]_vars

\* C19 witness: a broadcast call has ended without a failure; one session
\* that was a member when it began was deregistered during the call, no
\* other session has left, and the call made no attempt to that session
\* while it delivered to the two others.
C19_Witness ==
  \E s, t \in Sessions :
    /\ s # t
    /\ call[s].message # None
    /\ call[s].ended /\ call[s].failed = NoSession
    /\ InList(call[s].members, t)
    /\ leaves[t] = 1
    /\ \A u \in Sessions \ {t} : leaves[u] = 0
    /\ ~InList(call[s].attempts, t)
    /\ Len(call[s].attempts) = 2

====
